---- MODULE Spec2Model ----
(***************************************************************************)
(* A model of the ssd1322_rs driver: the command codec                     *)
(* (src/src/instruction.rs) and the controller session (src/src/lib.rs).   *)
(* A session operation is an async fn: the action that calls it runs it to *)
(* its first suspension point (an awaited delay or transport write), Poll  *)
(* runs it to the next one or to its return, and the caller may drop it    *)
(* while it is suspended. What it does to the pins, the delay and the      *)
(* transport is recorded, in order, in `events`.                           *)
(***************************************************************************)
EXTENDS Integers, Sequences, FiniteSets, TLC

VARIABLES
    orientation,  \* SSD1322.orientation: "Standard" or "Inverted"
    inverted,     \* SSD1322.inverted
    dc,           \* level of the data/command pin (0 low, 1 high)
    rst,          \* level of the reset pin
    power,        \* level of the power-enable pin
    overflow_checks, \* the build: TRUE panics on integer overflow, FALSE wraps
    remap_reg,    \* parameter bytes of the remapping command the transport accepted last (<<>>: none yet)
    initialized,  \* an init_default has returned Ok on this session
    op,           \* the operation called last ("idle": none, the caller has its result or dropped it)
    args,         \* its arguments
    events,       \* what it did so far, in order
    result,       \* "Pending" while it is suspended; what it returned: "Ok", "Comm", "OutOfRange", "Pin" or "Panic"
    future,       \* <<f>> for a suspended operation: the session as it was at the call, the polls so far (<<>>: none)
    intent,       \* the codec on its own: <<c>>, the Command handed to prepare (<<>>: none)
    prepared,     \* the codec on its own: <<r>>, what prepare returned for it (<<>>: not called yet)
    frame_store,  \* the frame on its own: <<f>>, a Frame (<<>>: none)
    frame_before, \* <<f>>, the Frame as it was when the last call on it started
    frame_call,   \* the last call on the Frame: its name and arguments
    NEXT_FRAME,   \* the example's hand-off: the signal's slot, <<cell>> or <<>> (empty)
    READY_FRAME,  \* the other signal's slot
    frames,       \* the Frame of each frame cell
    main_pc,      \* where main's loop is: "wait", "draw", "signal" or "tick"
    main_frame,   \* the frame main holds: <<cell>> or <<>>
    counter,      \* main's counter
    render_pc,    \* where render_task is: "init", the driver operation it awaits, "signal", "wait", "flush" or "panicked"
    render_frame, \* the frame render_task holds: <<cell>> or <<>>
    dropped,      \* the frame cells a signal() has overwritten untaken
    flushed       \* <<cell, buffer>> of the last flush_frame that returned Ok (<<>>: none yet)

frame_vars == <<frame_store, frame_before, frame_call>>

handoff_vars == <<NEXT_FRAME, READY_FRAME, frames, main_pc, main_frame, counter,
                  render_pc, render_frame, dropped, flushed>>

vars == <<orientation, inverted, dc, rst, power, overflow_checks, remap_reg,
          initialized, op, args, events, result, future, intent, prepared,
          frame_store, frame_before, frame_call,
          NEXT_FRAME, READY_FRAME, frames, main_pc, main_frame, counter,
          render_pc, render_frame, dropped, flushed>>

\* The example's tasks are not running
NoHandoff ==
    /\ NEXT_FRAME = <<>>
    /\ READY_FRAME = <<>>
    /\ frames = <<>>
    /\ main_pc = ""
    /\ main_frame = <<>>
    /\ counter = 0
    /\ render_pc = ""
    /\ render_frame = <<>>
    /\ dropped = {}
    /\ flushed = <<>>

-----------------------------------------------------------------------------
(* Bounds of the model *)

\* The transport's plan for one operation names the write that fails, counted
\* from 1 within the operation, or 0 for a transport that accepts every write.
\* One bound per operation, each past the operation's last write.
MaxFailInit == 41
MaxFailOrientation == 3
MaxFailWindow == 5
MaxFailData == 2
MaxFailFlush == 3
MaxFailFrame == 7

\* Longest data buffer handed to write_data, flush_buffer and Frame::new.
MaxBufLen == 2

-----------------------------------------------------------------------------
(* u8 / u16 arithmetic *)

U8 == 256
U16 == 65536

RECURSIVE BitOr(_, _)
BitOr(a, b) ==
    IF a = 0 THEN b
    ELSE IF b = 0 THEN a
    ELSE (IF a % 2 = 1 \/ b % 2 = 1 THEN 1 ELSE 0) + 2 * BitOr(a \div 2, b \div 2)

RECURSIVE BitAnd(_, _)
BitAnd(a, b) ==
    IF a = 0 \/ b = 0 THEN 0
    ELSE (IF a % 2 = 1 /\ b % 2 = 1 THEN 1 ELSE 0) + 2 * BitAnd(a \div 2, b \div 2)

\* u8 << n: the bits shifted out are dropped
Shl8(a, n) == (a * (2 ^ n)) % U8

\* u8 >> n
Shr8(a, n) == a \div (2 ^ n)

\* `x as u8` of a u16
AsU8(x) == x % U8

\* u16 subtraction: the wrapped value, and whether it overflowed
SubU16(a, b) == [v |-> (a - b + U16) % U16, ovf |-> a < b]

\* u16 addition: the wrapped value, and whether it overflowed
AddU16(a, b) == [v |-> (a + b) % U16, ovf |-> a + b >= U16]

-----------------------------------------------------------------------------
(* instruction.rs: constants *)

NUM_PIXEL_COLS == 480
NUM_PIXEL_ROWS == 128
NUM_BUF_COLS == AsU8(NUM_PIXEL_COLS \div 4)
PIXEL_ROW_MAX == NUM_PIXEL_ROWS - 1
BUF_COL_MAX == NUM_BUF_COLS - 1

-----------------------------------------------------------------------------
(* instruction.rs: the command intents *)

EnableGrayScaleTable == [tag |-> "EnableGrayScaleTable"]
SetColumnAddress(start, end) == [tag |-> "SetColumnAddress", a |-> start, b |-> end]
WriteRam == [tag |-> "WriteRam"]
ReadRam == [tag |-> "ReadRam"]
SetRowAddress(start, end) == [tag |-> "SetRowAddress", a |-> start, b |-> end]
SetRemapping(increment_axis, column_remap, nibble_remap, com_scan_direction, com_layout) ==
    [tag |-> "SetRemapping", ia |-> increment_axis, cr |-> column_remap,
     nr |-> nibble_remap, csd |-> com_scan_direction, cl |-> com_layout]
SetStartLine(line) == [tag |-> "SetStartLine", a |-> line]
SetDisplayOffset(line) == [tag |-> "SetDisplayOffset", a |-> line]
SetDisplayMode(mode) == [tag |-> "SetDisplayMode", mode |-> mode]
EnablePartialDisplay(start, end) == [tag |-> "EnablePartialDisplay", a |-> start, b |-> end]
DisablePartialDisplay == [tag |-> "DisablePartialDisplay"]
FunctionSelect(mode) == [tag |-> "FunctionSelect", mode |-> mode]
SetSleepMode(ena) == [tag |-> "SetSleepMode", ena |-> ena]
SetPhaseLengths(phase_1, phase_2) == [tag |-> "SetPhaseLengths", a |-> phase_1, b |-> phase_2]
SetClockFoscDivset(fosc, divset) == [tag |-> "SetClockFoscDivset", a |-> fosc, b |-> divset]
SetDisplayEnhancements(ena_external_vsl, ena_enhanced_low_gs_quality) ==
    [tag |-> "SetDisplayEnhancements", vsl |-> ena_external_vsl, gs |-> ena_enhanced_low_gs_quality]
SetSecondPrechargePeriod(period) == [tag |-> "SetSecondPrechargePeriod", a |-> period]
SetDefaultGrayScaleTable == [tag |-> "SetDefaultGrayScaleTable"]
SetPreChargeVoltage(voltage) == [tag |-> "SetPreChargeVoltage", a |-> voltage]
SetComDeselectVoltage(voltage) == [tag |-> "SetComDeselectVoltage", a |-> voltage]
SetContrastCurrent(current) == [tag |-> "SetContrastCurrent", a |-> current]
SetMasterContrast(contrast) == [tag |-> "SetMasterContrast", a |-> contrast]
SetMuxRatio(ratio) == [tag |-> "SetMuxRatio", a |-> ratio]
SetCommandLock(ena) == [tag |-> "SetCommandLock", ena |-> ena]

-----------------------------------------------------------------------------
(* instruction.rs: Command::prepare *)

\* ok_command!: the opcode, the two-byte argument buffer (zeroed, then filled
\* with the arguments) and the number of arguments
ok_command(cmd, cmd_args) ==
    [ok |-> TRUE, err |-> "",
     cmd |-> cmd,
     data |-> <<IF Len(cmd_args) >= 1 THEN cmd_args[1] ELSE 0,
                IF Len(cmd_args) >= 2 THEN cmd_args[2] ELSE 0>>,
     len |-> Len(cmd_args)]

OutOfRange == [ok |-> FALSE, err |-> "OutOfRange", cmd |-> 0, data |-> <<0, 0>>, len |-> 0]

\* SetColumnAddress with the end column left unchecked
prepare_SetColumnAddressEndUnchecked(start, end) ==
    IF start \in 0..BUF_COL_MAX
    THEN ok_command(21, <<start, end>>)
    ELSE OutOfRange

prepare_SetColumnAddress(start, end) ==
    IF start \in 0..BUF_COL_MAX /\ end \in 0..BUF_COL_MAX
    THEN ok_command(21, <<start, end>>)
    ELSE OutOfRange

prepare_SetRowAddress(start, end) ==
    IF start \in 0..PIXEL_ROW_MAX /\ end \in 0..PIXEL_ROW_MAX
    THEN ok_command(117, <<start, end>>)
    ELSE OutOfRange

\* SetRemapping with the dual-COM bit of the second byte never set
prepare_SetRemappingSingleCom(increment_axis, column_remap, nibble_remap, com_scan_direction, com_layout) ==
    LET ia == IF increment_axis = "Horizontal" THEN 0 ELSE 1
        cr == IF column_remap = "Forward" THEN 0 ELSE 2
        nr == IF nibble_remap = "Reverse" THEN 0 ELSE 4
        csd == IF com_scan_direction = "RowZeroFirst" THEN 0 ELSE 16
        interlace == IF com_layout = "Interlaced" THEN 32 ELSE 0
    IN  ok_command(160, <<BitOr(BitOr(BitOr(BitOr(ia, cr), nr), csd), interlace), 1>>)

prepare_SetRemapping(increment_axis, column_remap, nibble_remap, com_scan_direction, com_layout) ==
    LET ia == IF increment_axis = "Horizontal" THEN 0 ELSE 1
        cr == IF column_remap = "Forward" THEN 0 ELSE 2
        nr == IF nibble_remap = "Reverse" THEN 0 ELSE 4
        csd == IF com_scan_direction = "RowZeroFirst" THEN 0 ELSE 16
        interlace == IF com_layout = "Interlaced" THEN 32 ELSE 0
        dual_com == IF com_layout = "DualProgressive" THEN 17 ELSE 1
    IN  ok_command(160, <<BitOr(BitOr(BitOr(BitOr(ia, cr), nr), csd), interlace), dual_com>>)

prepare_SetDisplayMode(mode) ==
    ok_command(CASE mode = "BlankDark" -> 164
                 [] mode = "BlankBright" -> 165
                 [] mode = "Normal" -> 166
                 [] mode = "Inverse" -> 167,
               <<>>)

\* EnablePartialDisplay without the start <= end test
prepare_EnablePartialDisplayUnordered(start, end) ==
    IF start \in 0..PIXEL_ROW_MAX /\ end \in 0..PIXEL_ROW_MAX
    THEN ok_command(168, <<start, end>>)
    ELSE OutOfRange

prepare_EnablePartialDisplay(start, end) ==
    IF start \in 0..PIXEL_ROW_MAX /\ end \in 0..PIXEL_ROW_MAX /\ start <= end
    THEN ok_command(168, <<start, end>>)
    ELSE OutOfRange

prepare_SetSleepMode(ena) ==
    ok_command(IF ena THEN 174 ELSE 175, <<>>)

\* SetPhaseLengths with phase_1 - 1 left unshifted
prepare_SetPhaseLengthsUnshifted(phase_1, phase_2) ==
    IF phase_1 \in 5..31 /\ phase_2 \in 3..15
    THEN LET p1 == phase_1 - 1
             p2 == BitAnd(240, Shl8(phase_2, 4))
         IN  ok_command(177, <<BitOr(p1, p2)>>)
    ELSE OutOfRange

prepare_SetPhaseLengths(phase_1, phase_2) ==
    IF phase_1 \in 5..31 /\ phase_2 \in 3..15
    THEN LET p1 == Shr8(phase_1 - 1, 1)
             p2 == BitAnd(240, Shl8(phase_2, 4))
         IN  ok_command(177, <<BitOr(p1, p2)>>)
    ELSE OutOfRange

\* SetClockFoscDivset with the oscillator frequency limited to 0..=9
prepare_SetClockFoscDivsetFoscBelow10(fosc, divset) ==
    IF fosc \in 0..9 /\ divset \in 0..10
    THEN ok_command(179, <<BitOr(Shl8(fosc, 4), divset)>>)
    ELSE OutOfRange

prepare_SetClockFoscDivset(fosc, divset) ==
    IF fosc \in 0..15 /\ divset \in 0..10
    THEN ok_command(179, <<BitOr(Shl8(fosc, 4), divset)>>)
    ELSE OutOfRange

prepare_SetDisplayEnhancements(ena_external_vsl, ena_enhanced_low_gs_quality) ==
    LET vsl == IF ena_external_vsl THEN 160 ELSE 162
        gs == IF ena_enhanced_low_gs_quality THEN 253 ELSE 181
    IN  ok_command(180, <<vsl, gs>>)

\* SetMuxRatio accepting a ratio of 129
prepare_SetMuxRatioAccepts129(ratio) ==
    IF ratio \in 16..(NUM_PIXEL_ROWS + 1)
    THEN ok_command(202, <<ratio - 1>>)
    ELSE OutOfRange

prepare_SetMuxRatioMissingMinusOne(ratio) ==
    IF ratio \in 16..NUM_PIXEL_ROWS
    THEN ok_command(202, <<ratio>>)
    ELSE OutOfRange

prepare_SetMuxRatio(ratio) ==
    IF ratio \in 16..NUM_PIXEL_ROWS
    THEN ok_command(202, <<ratio - 1>>)
    ELSE OutOfRange

\* SetCommandLock with an opcode that follows its flag
prepare_SetCommandLockTwoOpcodes(ena) ==
    ok_command(IF ena THEN 253 ELSE 252, <<IF ena THEN 22 ELSE 18>>)

prepare_SetCommandLock(ena) ==
    ok_command(253, <<IF ena THEN 22 ELSE 18>>)

prepare(c) ==
    CASE c.tag = "EnableGrayScaleTable" -> ok_command(0, <<>>)
      [] c.tag = "SetColumnAddress" -> prepare_SetColumnAddress(c.a, c.b)
      [] c.tag = "SetRowAddress" -> prepare_SetRowAddress(c.a, c.b)
      [] c.tag = "WriteRam" -> ok_command(92, <<>>)
      [] c.tag = "ReadRam" -> ok_command(93, <<>>)
      [] c.tag = "SetRemapping" -> prepare_SetRemapping(c.ia, c.cr, c.nr, c.csd, c.cl)
      [] c.tag = "SetStartLine" ->
            IF c.a \in 0..PIXEL_ROW_MAX THEN ok_command(161, <<c.a>>) ELSE OutOfRange
      [] c.tag = "SetDisplayOffset" ->
            IF c.a \in 0..PIXEL_ROW_MAX THEN ok_command(162, <<c.a>>) ELSE OutOfRange
      [] c.tag = "SetDisplayMode" -> prepare_SetDisplayMode(c.mode)
      [] c.tag = "EnablePartialDisplay" -> prepare_EnablePartialDisplay(c.a, c.b)
      [] c.tag = "DisablePartialDisplay" -> ok_command(169, <<>>)
      [] c.tag = "FunctionSelect" ->
            ok_command(171, <<IF c.mode = "ExternalVDD" THEN 0 ELSE 1>>)
      [] c.tag = "SetSleepMode" -> prepare_SetSleepMode(c.ena)
      [] c.tag = "SetPhaseLengths" -> prepare_SetPhaseLengths(c.a, c.b)
      [] c.tag = "SetClockFoscDivset" -> prepare_SetClockFoscDivset(c.a, c.b)
      [] c.tag = "SetDisplayEnhancements" -> prepare_SetDisplayEnhancements(c.vsl, c.gs)
      [] c.tag = "SetSecondPrechargePeriod" ->
            IF c.a \in 0..15 THEN ok_command(182, <<c.a>>) ELSE OutOfRange
      [] c.tag = "SetDefaultGrayScaleTable" -> ok_command(185, <<>>)
      [] c.tag = "SetPreChargeVoltage" ->
            IF c.a \in 0..31 THEN ok_command(187, <<c.a>>) ELSE OutOfRange
      [] c.tag = "SetComDeselectVoltage" ->
            IF c.a \in 0..7 THEN ok_command(190, <<c.a>>) ELSE OutOfRange
      [] c.tag = "SetContrastCurrent" -> ok_command(193, <<c.a>>)
      [] c.tag = "SetMasterContrast" ->
            IF c.a \in 0..15 THEN ok_command(199, <<c.a>>) ELSE OutOfRange
      [] c.tag = "SetMuxRatio" -> prepare_SetMuxRatio(c.a)
      [] c.tag = "SetCommandLock" -> prepare_SetCommandLock(c.ena)

-----------------------------------------------------------------------------
(* lib.rs: what an operation does, in order *)

DelayEv(ms) ==
    [ev |-> "delay", pin |-> "", level |-> 0, ms |-> ms, kind |-> "", bytes |-> <<>>, ok |-> TRUE, dc |-> 0]
PinEv(pin, level) ==
    [ev |-> "pin", pin |-> pin, level |-> level, ms |-> 0, kind |-> "", bytes |-> <<>>, ok |-> TRUE, dc |-> 0]
\* a transport write: its bytes, whether the transport accepted it, and the
\* level of the data/command pin while it was made
WriteEv(kind, bytes, ok, dc_level) ==
    [ev |-> "write", pin |-> "", level |-> 0, ms |-> 0, kind |-> kind, bytes |-> bytes, ok |-> ok, dc |-> dc_level]

\* The running operation: the session's fields and pins, the events so far,
\* the number of transport writes made, the number of suspension points
\* passed, the result so far ("Ok" while it runs; "Pending" once it is
\* suspended and not polled again; anything else once it has returned), the
\* transport's plan, the number of polls it is given and the build.
Running(st) == st.res = "Ok"

\* `.await` on a delay or a transport write: the operation is suspended there,
\* and goes on with the outcome res only when it is polled again
Await(st, res) == IF st.np + 1 = st.polls THEN "Pending" ELSE res

\* `return Err(..)`, or a panic
Return(st, res) == IF Running(st) THEN [st EXCEPT !.res = res] ELSE st

\* DelayNs::delay_ms(..).await
delay_ms(st, ms) ==
    IF Running(st)
    THEN [st EXCEPT !.events = Append(@, DelayEv(ms)),
                    !.np = @ + 1,
                    !.res = Await(st, "Ok")]
    ELSE st

\* OutputPin::set_low / set_high with Error = Infallible: always Ok
set_pin(st, pin, level) ==
    IF ~Running(st) THEN st
    ELSE CASE pin = "dc" -> [st EXCEPT !.dc = level, !.events = Append(@, PinEv(pin, level))]
           [] pin = "rst" -> [st EXCEPT !.rst = level, !.events = Append(@, PinEv(pin, level))]
           [] pin = "power" -> [st EXCEPT !.power = level, !.events = Append(@, PinEv(pin, level))]

\* self.spi.write(..).await with the error ignored: the operation goes on
spi_write_ignoring_error(st, kind, bytes) ==
    IF ~Running(st) THEN st
    ELSE LET n == st.nw + 1
         IN  [st EXCEPT !.events = Append(@, WriteEv(kind, bytes, n # st.fail_at, st.dc)),
                        !.nw = n,
                        !.np = @ + 1,
                        !.res = Await(st, "Ok")]

\* self.spi.write(..).await with the transport's error returned as a Pin error
spi_write_as_pin_error(st, kind, bytes) ==
    IF ~Running(st) THEN st
    ELSE LET n == st.nw + 1
             ok == n # st.fail_at
         IN  [st EXCEPT !.events = Append(@, WriteEv(kind, bytes, ok, st.dc)),
                        !.nw = n,
                        !.np = @ + 1,
                        !.res = Await(st, IF ok THEN "Ok" ELSE "Pin")]

\* self.spi.write(..).await.map_err(Error::Comm)?
spi_write(st, kind, bytes) ==
    IF ~Running(st) THEN st
    ELSE LET n == st.nw + 1
             ok == n # st.fail_at
         IN  [st EXCEPT !.events = Append(@, WriteEv(kind, bytes, ok, st.dc)),
                        !.nw = n,
                        !.np = @ + 1,
                        !.res = Await(st, IF ok THEN "Ok" ELSE "Comm")]

-----------------------------------------------------------------------------
(* lib.rs: SSD1322 *)

\* hard_reset with the power pin raised before the reset pulse
hard_reset_power_first(st) ==
    LET s1 == delay_ms(st, 1)
        s2 == set_pin(s1, "power", 1)
        s3 == delay_ms(s2, 1)
        s4 == set_pin(s3, "rst", 0)
        s5 == delay_ms(s4, 1)
        s6 == set_pin(s5, "rst", 1)
    IN  delay_ms(s6, 1)

hard_reset(st) ==
    LET s1 == delay_ms(st, 1)
        s2 == set_pin(s1, "rst", 0)
        s3 == delay_ms(s2, 1)
        s4 == set_pin(s3, "rst", 1)
        s5 == delay_ms(s4, 1)
        s6 == set_pin(s5, "power", 1)
    IN  delay_ms(s6, 1)

write_command(st, command) ==
    LET s1 == set_pin(st, "dc", 0)
        s2 == spi_write(s1, "opcode", <<command.cmd>>)
    IN  IF command.len # 0
        THEN spi_write(set_pin(s2, "dc", 1), "params", SubSeq(command.data, 1, command.len))
        ELSE s2

\* set_orientation's choice of preset with the Standard preset for both orientations
OrientationRemappingStandardOnly(o) ==
    SetRemapping("Horizontal", "Forward", "Forward", "RowZeroLast", "DualProgressive")

\* The remapping preset of an orientation (set_orientation's two branches)
OrientationRemapping(o) ==
    IF o = "Inverted"
    THEN SetRemapping("Horizontal", "Reverse", "Forward", "RowZeroFirst", "DualProgressive")
    ELSE SetRemapping("Horizontal", "Forward", "Forward", "RowZeroLast", "DualProgressive")

set_orientation(st, o) ==
    IF ~Running(st) THEN st
    ELSE LET s1 == [st EXCEPT !.orientation = o]
             c == prepare(OrientationRemapping(o))
         IN  IF c.ok THEN write_command(s1, c) ELSE Return(s1, c.err)

\* start_data leaving the data/command pin as it is
start_data_pin_untouched(st) == st

start_data(st) == set_pin(st, "dc", 1)

\* write_data refusing to send on a session that was not initialized
write_data_guarded(st, data) ==
    IF initialized THEN spi_write(start_data(st), "data", data) ELSE st

write_data(st, data) == spi_write(start_data(st), "data", data)

\* line 396: (480 - width + start_x) / 2, in u16
window_offset(width, start_x) ==
    LET d == SubU16(480, width)
        s == AddU16(d.v, start_x)
    IN  [v |-> s.v \div 2, ovf |-> d.ovf \/ s.ovf]

\* line 397
window_column_start(offset) == offset \div 4

\* column_end with width / 8 for width / 4
window_column_end_eighth(column_start, width) ==
    LET t == AddU16(column_start, width \div 8)
        e == SubU16(t.v, 1)
    IN  [v |-> e.v, ovf |-> t.ovf \/ e.ovf]

\* line 398: (column_start + (width / 4)) - 1, in u16
window_column_end(column_start, width) ==
    LET t == AddU16(column_start, width \div 4)
        e == SubU16(t.v, 1)
    IN  [v |-> e.v, ovf |-> t.ovf \/ e.ovf]

\* line 406: height - 1, in u16
window_row_end(height) == SubU16(height, 1)

set_address_window(st, start_x, start_y, width, height) ==
    LET offset == window_offset(width, start_x)
        column_start == window_column_start(offset.v)
        column_end == window_column_end(column_start, width)
        row_end == window_row_end(height)
    IN  IF ~Running(st) THEN st
        ELSE IF st.checks /\ (offset.ovf \/ column_end.ovf) THEN Return(st, "Panic")
        ELSE IF \/ column_start > BUF_COL_MAX
                \/ column_end.v > BUF_COL_MAX
                \/ start_y > PIXEL_ROW_MAX
                \/ height > PIXEL_ROW_MAX
        THEN Return(st, "OutOfRange")
        ELSE LET c1 == prepare(SetColumnAddress(AsU8(column_start), AsU8(column_end.v)))
                 s1 == IF c1.ok THEN write_command(st, c1) ELSE Return(st, c1.err)
             IN  IF ~Running(s1) THEN s1
                 ELSE IF st.checks /\ row_end.ovf THEN Return(s1, "Panic")
                 ELSE LET c2 == prepare(SetRowAddress(AsU8(start_y), AsU8(row_end.v)))
                      IN  IF c2.ok THEN write_command(s1, c2) ELSE Return(s1, c2.err)

\* flush_buffer putting the stored orientation back to Standard
flush_buffer_standard(st, buf) ==
    LET c == prepare(WriteRam)
        s1 == IF c.ok THEN write_command(st, c) ELSE Return(st, c.err)
    IN  [spi_write(start_data(s1), "data", buf) EXCEPT !.orientation = "Standard"]

flush_buffer(st, buf) ==
    LET c == prepare(WriteRam)
        s1 == IF c.ok THEN write_command(st, c) ELSE Return(st, c.err)
    IN  spi_write(start_data(s1), "data", buf)

flush_frame(st, frame) ==
    LET s1 == set_address_window(st, 0, 0, frame.width, frame.height)
        c == prepare(WriteRam)
        s2 == IF ~Running(s1) THEN s1
              ELSE IF c.ok THEN write_command(s1, c) ELSE Return(s1, c.err)
    IN  write_data(s2, frame.buffer)

\* the command list with the sleep-disable command sent before the
\* partial-display command
init_commands_sleep_early(inv) ==
    << SetCommandLock(FALSE),
       SetSleepMode(TRUE),
       SetRemapping("Horizontal", "Forward", "Forward", "RowZeroLast", "DualProgressive"),
       SetStartLine(0),
       SetDisplayOffset(0),
       SetDisplayMode(IF inv THEN "Inverse" ELSE "Normal"),
       FunctionSelect("InternalVDD"),
       SetPhaseLengths(5, 15),
       SetClockFoscDivset(10, 1),
       SetDisplayEnhancements(TRUE, TRUE),
       SetSecondPrechargePeriod(8),
       SetDefaultGrayScaleTable,
       SetPreChargeVoltage(31),
       SetComDeselectVoltage(7),
       SetContrastCurrent(60),
       SetMasterContrast(10),
       SetMuxRatio(63),
       SetSleepMode(FALSE),
       DisablePartialDisplay >>

\* lines 163-192: the fixed command list
init_commands(inv) ==
    << SetCommandLock(FALSE),
       SetSleepMode(TRUE),
       SetRemapping("Horizontal", "Forward", "Forward", "RowZeroLast", "DualProgressive"),
       SetStartLine(0),
       SetDisplayOffset(0),
       SetDisplayMode(IF inv THEN "Inverse" ELSE "Normal"),
       FunctionSelect("InternalVDD"),
       SetPhaseLengths(5, 15),
       SetClockFoscDivset(10, 1),
       SetDisplayEnhancements(TRUE, TRUE),
       SetSecondPrechargePeriod(8),
       SetDefaultGrayScaleTable,
       SetPreChargeVoltage(31),
       SetComDeselectVoltage(7),
       SetContrastCurrent(60),
       SetMasterContrast(10),
       SetMuxRatio(63),
       DisablePartialDisplay,
       SetSleepMode(FALSE) >>

\* lines 200-212: the body of init_default's loop. `data` is the two-byte
\* array of CommandData, so `!data.is_empty()` is decided by its length, 2.
init_send(st, command) ==
    LET s1 == set_pin(st, "dc", 0)
        s2 == spi_write(s1, "opcode", <<command.cmd>>)
    IN  IF Len(command.data) # 0
        THEN spi_write(set_pin(s2, "dc", 1), "params", SubSeq(command.data, 1, command.len))
        ELSE s2

RECURSIVE init_loop(_, _, _)
init_loop(st, commands, i) ==
    IF i > Len(commands) THEN st
    ELSE LET s == init_send(st, commands[i])
         IN  IF Running(s) THEN init_loop(s, commands, i + 1) ELSE s

\* lines 163-192: `.prepare()?` on each command of the list, for either value
\* of `inverted`
init_prepared ==
    [inv \in BOOLEAN |->
        [i \in 1..Len(init_commands(inv)) |-> prepare(init_commands(inv)[i])]]

init_default(st, inv) ==
    LET s0 == hard_reset(st)
        list == init_commands(inv)
        commands == init_prepared[inv]
        bad == {i \in 1..Len(list) : ~commands[i].ok}
        s1 == IF bad = {} THEN init_loop(s0, commands, 1)
              ELSE Return(s0, commands[CHOOSE i \in bad : \A j \in bad : i <= j].err)
    IN  set_orientation(s1, s1.orientation)

-----------------------------------------------------------------------------
(* lib.rs: the Frame *)

\* calculate_buffer_size
calculate_buffer_size(width, height) == (width * height) \div 2

\* Frame::new: the three fields as given
Frame_new(width, height, buffer) == [width |-> width, height |-> height, buffer |-> buffer]

\* Frame::<N>::default
Frame_default(n) == [width |-> 256, height |-> 64, buffer |-> [i \in 1..n |-> 0]]

\* set_pixel with x = width and y = height taken as inside the frame
set_pixel_bounds_inclusive(f, x, y, color) ==
    LET idx == (y * f.width + x) \div 2
        c == BitAnd(color, 15)
    IN  IF x > f.width \/ y > f.height THEN f
        ELSE IF idx >= Len(f.buffer) THEN f
        ELSE IF x % 2 = 0
        THEN [f EXCEPT !.buffer[idx + 1] = BitOr(BitAnd(@, 15), Shl8(c, 4))]
        ELSE [f EXCEPT !.buffer[idx + 1] = BitOr(BitAnd(@, 240), c)]

\* Frame::set_pixel(x: u8, y: u8, color); buffer[idx] is buffer[idx + 1] here
set_pixel(f, x, y, color) ==
    LET idx == (y * f.width + x) \div 2
        c == BitAnd(color, 15)
    IN  IF x >= f.width \/ y >= f.height THEN f
        ELSE IF idx >= Len(f.buffer) THEN f
        ELSE IF x % 2 = 0
        THEN [f EXCEPT !.buffer[idx + 1] = BitOr(BitAnd(@, 15), Shl8(c, 4))]
        ELSE [f EXCEPT !.buffer[idx + 1] = BitOr(BitAnd(@, 240), c)]

\* DrawTarget::clear
clear(f, color) ==
    LET packed_color == BitOr(Shl8(color, 4), color)
    IN  [f EXCEPT !.buffer = [i \in 1..Len(f.buffer) |-> packed_color]]

\* self.bounding_box().contains(pos): the rectangle at (0, 0) of size()
\* (width, height); pos has i32 coordinates
bounding_box_contains(f, pos) ==
    /\ 0 <= pos.x /\ pos.x < f.width
    /\ 0 <= pos.y /\ pos.y < f.height

\* DrawTarget::draw_iter: each pixel inside the bounding box goes to
\* set_pixel(pos.x as u8, pos.y as u8, color), in order
RECURSIVE draw_iter(_, _)
draw_iter(f, pixels) ==
    IF pixels = <<>> THEN f
    ELSE LET p == Head(pixels)
             g == IF bounding_box_contains(f, p)
                  THEN set_pixel(f, AsU8(p.x), AsU8(p.y), p.color)
                  ELSE f
         IN  draw_iter(g, Tail(pixels))

-----------------------------------------------------------------------------
(* The controller's side of the transport *)

\* The last transport write before event i (0: none)
PrevWrite(evs, i) ==
    LET before == {j \in 1..(i - 1) : evs[j].ev = "write"}
    IN  IF before = {} THEN 0 ELSE CHOOSE j \in before : \A k \in before : k <= j

\* The parameter writes of remapping commands (opcode 0xA0) that the transport
\* accepted, opcode and parameters both
AcceptedRemaps(evs) ==
    {i \in 1..Len(evs) :
        /\ evs[i].ev = "write" /\ evs[i].kind = "params" /\ evs[i].ok
        /\ Len(evs[i].bytes) = 2
        /\ PrevWrite(evs, i) # 0
        /\ evs[PrevWrite(evs, i)].kind = "opcode"
        /\ evs[PrevWrite(evs, i)].bytes = <<160>>
        /\ evs[PrevWrite(evs, i)].ok}

\* The remapping parameters accepted last, after the events evs
RemapAfter(reg, evs) ==
    LET acc == AcceptedRemaps(evs)
    IN  IF acc = {} THEN reg
        ELSE evs[CHOOSE i \in acc : \A k \in acc : k <= i].bytes

-----------------------------------------------------------------------------
(* The inputs *)

Orientations == {"Standard", "Inverted"}
Levels == {0, 1}
StartXs == {0, 16}
StartYs == {0, 100, 128}
Widths == {256, 480, 484}
Heights == {0, 64, 128}
DataBytes == {0, 255}
Buffers == UNION {[1..n -> DataBytes] : n \in 0..MaxBufLen}
FrameWidths == {4, 256}
FrameHeights == {0, 1, 64}
\* Frame::new(width, height, buffer) with a buffer of MaxBufLen equal bytes
Frames == [width : FrameWidths, height : FrameHeights,
           buffer : {[i \in 1..MaxBufLen |-> v] : v \in DataBytes}]

-----------------------------------------------------------------------------
(* The session as a state machine: one action per public operation, which
   calls it and polls it once; Poll for every later poll *)

\* SSD1322::new: the fields are the Config's; nothing is sent, no pin is driven
Init ==
    /\ orientation \in Orientations
    /\ inverted \in BOOLEAN
    /\ dc \in Levels
    /\ rst \in Levels
    /\ power \in Levels
    /\ overflow_checks \in BOOLEAN
    /\ remap_reg = <<>>
    /\ initialized = FALSE
    /\ op = "idle"
    /\ args = <<>>
    /\ events = <<>>
    /\ result = "Ok"
    /\ future = <<>>
    /\ intent = <<>>
    /\ prepared = <<>>
    /\ frame_store = <<>>
    /\ frame_before = <<>>
    /\ frame_call = <<>>
    /\ NoHandoff

\* The session as it is when an operation is called on it
Called ==
    [orientation |-> orientation, dc |-> dc, rst |-> rst, power |-> power,
     remap_reg |-> remap_reg, polls |-> 0]

\* The operation called on the session `from`, with the transport's plan f,
\* polled `polls` times
Polled(from, f, polls) ==
    [orientation |-> from.orientation, dc |-> from.dc, rst |-> from.rst, power |-> from.power,
     events |-> <<>>, nw |-> 0, np |-> 0, res |-> "Ok", fail_at |-> f, polls |-> polls,
     checks |-> overflow_checks]

\* An operation is called on the session as it is, with the transport's plan
\* f, and polled once
Begin(f) == Polled(Called, f, 1)

\* The operation called on the session `from` has run to st: to a suspension
\* point, to its return or to a panic
Progress(name, a, st, from) ==
    /\ orientation' = st.orientation
    /\ dc' = st.dc
    /\ rst' = st.rst
    /\ power' = st.power
    /\ remap_reg' = RemapAfter(from.remap_reg, st.events)
    /\ initialized' = (initialized \/ (name = "init_default" /\ st.res = "Ok"))
    /\ op' = name
    /\ args' = a
    /\ events' = st.events
    /\ result' = st.res
    /\ future' = IF st.res = "Pending" THEN <<[from EXCEPT !.polls = st.polls]>> ELSE <<>>
    /\ UNCHANGED <<inverted, overflow_checks, intent, prepared>>
    /\ UNCHANGED frame_vars

\* An operation called on the session as it is has been polled once
Finish(name, a, st) ==
    /\ Progress(name, a, st, Called)
    /\ UNCHANGED handoff_vars

\* The caller calls one operation at a time (&mut self), on a session that
\* is idle; a panic aborts the program
Alive == op = "idle" /\ result # "Panic"

\* The caller takes the result of the operation that returned
Returned ==
    /\ op # "idle"
    /\ result \notin {"Panic", "Pending"}
    /\ op' = "idle"
    /\ args' = <<>>
    /\ events' = <<>>
    /\ result' = "Ok"
    /\ UNCHANGED <<orientation, inverted, dc, rst, power, overflow_checks, remap_reg, initialized,
                   future, intent, prepared>>
    /\ UNCHANGED frame_vars
    /\ UNCHANGED handoff_vars

\* The caller drops the future of a suspended operation: the operation runs
\* no further, and the session stays as it is
Dropped ==
    /\ result = "Pending"
    /\ op' = "idle"
    /\ args' = <<>>
    /\ events' = <<>>
    /\ result' = "Ok"
    /\ future' = <<>>
    /\ UNCHANGED <<orientation, inverted, dc, rst, power, overflow_checks, remap_reg, initialized,
                   intent, prepared>>
    /\ UNCHANGED frame_vars
    /\ UNCHANGED handoff_vars

\* The operation `name` with the arguments a
Operation(name, a, st) ==
    CASE name = "hard_reset" -> hard_reset(st)
      [] name = "init_default" -> init_default(st, inverted)
      [] name = "set_orientation" -> set_orientation(st, a[1])
      [] name = "set_address_window" -> set_address_window(st, a[1], a[2], a[3], a[4])
      [] name = "write_data" -> write_data(st, a[1])
      [] name = "flush_buffer" -> flush_buffer(st, a[1])
      [] name = "flush_frame" -> flush_frame(st, Frame_new(a[1], a[2], a[3]))

\* The bound on the transport's plan for the operation `name`
MaxFail(name) ==
    CASE name = "hard_reset" -> 0
      [] name = "init_default" -> MaxFailInit
      [] name = "set_orientation" -> MaxFailOrientation
      [] name = "set_address_window" -> MaxFailWindow
      [] name = "write_data" -> MaxFailData
      [] name = "flush_buffer" -> MaxFailFlush
      [] name = "flush_frame" -> MaxFailFrame

\* The transport decides on a write when the write is made: after the events
\* evs the plans that can still differ are the one that refuses no write, the
\* one that refused the last write and the one that refuses the next write
Plans(name, evs) ==
    LET nw == Len(SelectSeq(evs, LAMBDA e : e.ev = "write"))
    IN  {f \in 0..MaxFail(name) : f = 0 \/ f = nw \/ f = nw + 1}

\* The suspended operation polled once more, as a step of the session: it
\* goes on from where it is, so what it did so far stays as it is
Resumed ==
    \E f \in Plans(op, events) :
        LET st == Operation(op, args, Polled(future[1], f, future[1].polls + 1))
        IN  /\ Len(st.events) >= Len(events)
            /\ SubSeq(st.events, 1, Len(events)) = events
            /\ Progress(op, args, st, future[1])

\* The caller polls the suspended operation again
Poll ==
    /\ result = "Pending"
    /\ Resumed
    /\ UNCHANGED handoff_vars

HardReset ==
    /\ Alive
    /\ Finish("hard_reset", <<>>, hard_reset(Begin(0)))

InitDefault ==
    /\ Alive
    /\ \E f \in 0..MaxFailInit :
        Finish("init_default", <<>>, init_default(Begin(f), inverted))

SetOrientation ==
    /\ Alive
    /\ \E o \in Orientations, f \in 0..MaxFailOrientation :
        Finish("set_orientation", <<o>>, set_orientation(Begin(f), o))

SetAddressWindow ==
    /\ Alive
    /\ \E start_x \in StartXs, start_y \in StartYs, width \in Widths, height \in Heights,
          f \in 0..MaxFailWindow :
        Finish("set_address_window", <<start_x, start_y, width, height>>,
               set_address_window(Begin(f), start_x, start_y, width, height))

WriteData ==
    /\ Alive
    /\ \E data \in Buffers, f \in 0..MaxFailData :
        Finish("write_data", <<data>>, write_data(Begin(f), data))

FlushBuffer ==
    /\ Alive
    /\ \E buf \in Buffers, f \in 0..MaxFailFlush :
        Finish("flush_buffer", <<buf>>, flush_buffer(Begin(f), buf))

FlushFrame ==
    /\ Alive
    /\ \E frame \in Frames, f \in 0..MaxFailFrame :
        Finish("flush_frame", <<frame.width, frame.height, frame.buffer>>,
               flush_frame(Begin(f), frame))

Next ==
    \/ HardReset
    \/ InitDefault
    \/ SetOrientation
    \/ SetAddressWindow
    \/ WriteData
    \/ FlushBuffer
    \/ FlushFrame
    \/ Poll
    \/ Dropped
    \/ Returned

Spec == Init /\ [][Next]_vars

-----------------------------------------------------------------------------
(* The codec on its own: one Command, drawn from every variant with every
   8-bit parameter value, is handed to prepare once *)

Bytes == 0..(U8 - 1)

\* The Command under encoding is any variant, its u8 parameters anywhere in
\* u8, its enumerated parameters any enumerator
AnyCommand ==
    \/ intent \in {<<EnableGrayScaleTable>>, <<WriteRam>>, <<ReadRam>>,
                    <<DisablePartialDisplay>>, <<SetDefaultGrayScaleTable>>}
    \/ \E a \in Bytes, b \in Bytes :
            intent \in {<<SetColumnAddress(a, b)>>, <<SetRowAddress(a, b)>>,
                        <<EnablePartialDisplay(a, b)>>, <<SetPhaseLengths(a, b)>>,
                        <<SetClockFoscDivset(a, b)>>}
    \/ \E a \in Bytes :
            intent \in {<<SetStartLine(a)>>, <<SetDisplayOffset(a)>>,
                        <<SetSecondPrechargePeriod(a)>>, <<SetPreChargeVoltage(a)>>,
                        <<SetComDeselectVoltage(a)>>, <<SetContrastCurrent(a)>>,
                        <<SetMasterContrast(a)>>, <<SetMuxRatio(a)>>}
    \/ \E ia \in {"Horizontal", "Vertical"}, cr \in {"Forward", "Reverse"},
          nr \in {"Reverse", "Forward"}, csd \in {"RowZeroFirst", "RowZeroLast"},
          cl \in {"Progressive", "Interlaced", "DualProgressive"} :
            intent = <<SetRemapping(ia, cr, nr, csd, cl)>>
    \/ \E m \in {"BlankDark", "BlankBright", "Normal", "Inverse"} :
            intent = <<SetDisplayMode(m)>>
    \/ \E m \in {"ExternalVDD", "InternalVDD"} : intent = <<FunctionSelect(m)>>
    \/ \E e \in BOOLEAN : intent \in {<<SetSleepMode(e)>>, <<SetCommandLock(e)>>}
    \/ \E v \in BOOLEAN, g \in BOOLEAN : intent = <<SetDisplayEnhancements(v, g)>>

\* A Command value has been built and prepare has not been called on it; no
\* session is involved
InitCodec ==
    /\ orientation = "Standard"
    /\ inverted = FALSE
    /\ dc = 0
    /\ rst = 0
    /\ power = 0
    /\ overflow_checks = FALSE
    /\ remap_reg = <<>>
    /\ initialized = FALSE
    /\ op = "idle"
    /\ args = <<>>
    /\ events = <<>>
    /\ result = "Ok"
    /\ future = <<>>
    /\ prepared = <<>>
    /\ frame_store = <<>>
    /\ frame_before = <<>>
    /\ frame_call = <<>>
    /\ NoHandoff
    /\ AnyCommand

\* command.prepare()
Prepare ==
    /\ intent # <<>>
    /\ prepared = <<>>
    /\ prepared' = <<prepare(intent[1])>>
    /\ UNCHANGED <<orientation, inverted, dc, rst, power, overflow_checks, remap_reg,
                   initialized, op, args, events, result, future, intent>>
    /\ UNCHANGED frame_vars
    /\ UNCHANGED handoff_vars

NextCodec == Prepare

SpecCodec == InitCodec /\ [][NextCodec]_vars

-----------------------------------------------------------------------------
(* The Frame on its own: a Frame is constructed, then pixels are set and the
   frame is cleared, any number of times *)

MaxFrameLen == 2

\* width and height given to Frame::new
FrameDims == {<<1, 2>>, <<3, 1>>, <<4, 1>>, <<3, 2>>, <<4, 64>>, <<256, 64>>, <<480, 1>>}
\* u8 coordinates given to set_pixel
PixelXs == {0, 1, 2, 4}
PixelYs == {0, 1, 64}
\* Gray4 values
Colours == {0, 5, 9}

\* Pixel(Point::new(x, y), color)
Pixel(x, y, color) == [x |-> x, y |-> y, color |-> color]
\* the pixel sequences given to draw_iter
PixelLists ==
    { <<>>,
      <<Pixel(1, 0, 5)>>,
      <<Pixel(-1, 0, 5)>>,
      <<Pixel(256, 0, 9)>>,
      <<Pixel(0, 1, 9), Pixel(4, 0, 5)>>,
      <<Pixel(0, 0, 5), Pixel(1, 0, 9)>> }

FrameCall(name, x, y, color) ==
    [name |-> name, x |-> x, y |-> y, color |-> color, pixels |-> <<>>]

\* Frame::new(width, height, [0; N]) or Frame::<N>::default(); no session is
\* involved
InitFrame ==
    /\ orientation = "Standard"
    /\ inverted = FALSE
    /\ dc = 0
    /\ rst = 0
    /\ power = 0
    /\ overflow_checks = FALSE
    /\ remap_reg = <<>>
    /\ initialized = FALSE
    /\ op = "idle"
    /\ args = <<>>
    /\ events = <<>>
    /\ result = "Ok"
    /\ future = <<>>
    /\ intent = <<>>
    /\ prepared = <<>>
    /\ \E n \in 0..MaxFrameLen :
        \/ /\ frame_store = <<Frame_default(n)>>
           /\ frame_call = FrameCall("default", 0, 0, 0)
        \/ \E d \in FrameDims :
            /\ frame_store = <<Frame_new(d[1], d[2], [i \in 1..n |-> 0])>>
            /\ frame_call = FrameCall("new", 0, 0, 0)
    /\ frame_before = frame_store
    /\ NoHandoff

FrameStep(name, x, y, color, f) ==
    /\ frame_before' = frame_store
    /\ frame_store' = <<f>>
    /\ frame_call' = FrameCall(name, x, y, color)
    /\ UNCHANGED <<orientation, inverted, dc, rst, power, overflow_checks, remap_reg,
                   initialized, op, args, events, result, future, intent, prepared>>
    /\ UNCHANGED handoff_vars

SetPixel ==
    /\ frame_store # <<>>
    /\ \E x \in PixelXs, y \in PixelYs, color \in Colours :
        FrameStep("set_pixel", x, y, color, set_pixel(frame_store[1], x, y, color))

Clear ==
    /\ frame_store # <<>>
    /\ \E color \in Colours :
        FrameStep("clear", 0, 0, color, clear(frame_store[1], color))

DrawIter ==
    /\ frame_store # <<>>
    /\ \E pixels \in PixelLists :
        /\ frame_before' = frame_store
        /\ frame_store' = <<draw_iter(frame_store[1], pixels)>>
        /\ frame_call' = [FrameCall("draw_iter", 0, 0, 0) EXCEPT !.pixels = pixels]
        /\ UNCHANGED <<orientation, inverted, dc, rst, power, overflow_checks, remap_reg,
                       initialized, op, args, events, result, future, intent, prepared>>
        /\ UNCHANGED handoff_vars

NextFrame ==
    \/ SetPixel
    \/ Clear
    \/ DrawIter

SpecFrame == InitFrame /\ [][NextFrame]_vars

-----------------------------------------------------------------------------
(* examples/src/bin/frames.rs: the two tasks of the example hand the two
   frames to each other through the signals NEXT_FRAME and READY_FRAME, and
   render_task drives the display. A step of main is one operation on a
   signal, or the work between two of them; a step of render_task is one
   operation on a signal, or one poll of the driver operation it awaits. The
   tasks interleave in any order. *)

MaxCounter == 3

\* FRAME_A, FRAME_B
FrameCells == {"FRAME_A", "FRAME_B"}

\* Signal::signal(val): the slot holds val; a value it still held is dropped
signal(slot, val) == <<val>>

\* what Signal::signal(val) drops: the value the slot still held
overwritten(slot) == IF slot = <<>> THEN {} ELSE {slot[1]}

\* line 140: the number of decimal digits of the counter
RECURSIVE Digits(_)
Digits(n) == IF n < 10 THEN 1 ELSE 1 + Digits(n \div 10)

\* lines 139-141: the glyphs in each line of "Hello from\nthe SSD1322\n<counter>"
TextLines(n) == <<10, 11, Digits(n)>>

\* lines 142-144: (x, y) lies in a glyph cell of the text. FONT_10X20 has cells
\* of 10 x 20 pixels with the baseline 15 rows below the top; the text is
\* placed with its first baseline at Point::new(128, 12), each line centred
\* on column 128 (Alignment::Center)
TextCells(n, x, y) ==
    \E i \in 1..3 :
        LET width == 10 * TextLines(n)[i]
            left == 128 - ((width - 1) \div 2)
            top == (12 - 15) + 20 * (i - 1)
        IN  /\ left <= x /\ x < left + width
            /\ top <= y /\ y < top + 20

\* The coordinates whose pixel set_pixel stores in f: inside the bounds, with
\* a byte in the buffer
Held(f) ==
    IF f.width = 0 THEN {}
    ELSE {p \in {[x |-> k % f.width, y |-> k \div f.width] : k \in 0..(2 * Len(f.buffer) - 1)} :
            bounding_box_contains(f, p)}

\* The pixels of a set of coordinates, in white (Gray4::WHITE), as a list
RECURSIVE PixelSeq(_)
PixelSeq(S) ==
    IF S = {} THEN <<>>
    ELSE LET p == CHOOSE q \in S : TRUE
         IN  <<Pixel(p.x, p.y, 15)>> \o PixelSeq(S \ {p})

\* lines 142-144: the pixel lists the text of counter n can hand to the frame
\* f. Which pixels of its cells a glyph lights is decided by the font
\* (embedded-graphics), so any of them may be lit; the pixels that f does not
\* hold are left out, since set_pixel drops them whichever they are
TextPixelLists(f, n) ==
    {PixelSeq(lit) : lit \in SUBSET {p \in Held(f) : TextCells(n, p.x, p.y)}}

\* init_display_buffers() has run, render_task is spawned with its pins low
\* (lines 79-82) and has made its session (lines 85-90, the default Config)
InitHandoff ==
    /\ orientation = "Standard"
    /\ inverted = FALSE
    /\ dc = 0
    /\ rst = 0
    /\ power = 0
    /\ overflow_checks = FALSE
    /\ remap_reg = <<>>
    /\ initialized = FALSE
    /\ op = "idle"
    /\ args = <<>>
    /\ events = <<>>
    /\ result = "Ok"
    /\ future = <<>>
    /\ intent = <<>>
    /\ prepared = <<>>
    /\ frame_store = <<>>
    /\ frame_before = <<>>
    /\ frame_call = <<>>
    /\ NEXT_FRAME = signal(<<>>, "FRAME_A")
    /\ READY_FRAME = signal(<<>>, "FRAME_B")
    /\ frames = [c \in FrameCells |-> Frame_default(MaxFrameLen)]
    /\ main_pc = "wait"
    /\ main_frame = <<>>
    /\ counter = 0
    /\ render_pc = "init"
    /\ render_frame = <<>>
    /\ dropped = {}
    /\ flushed = <<>>

\* A step that does not touch the driver session
DriverUnchanged ==
    /\ UNCHANGED <<orientation, inverted, dc, rst, power, overflow_checks, remap_reg,
                   initialized, op, args, events, result, future, intent, prepared>>
    /\ UNCHANGED frame_vars

\* render_task has taken the result of the driver operation it awaited
DriverReturned ==
    /\ op' = "idle"
    /\ args' = <<>>
    /\ events' = <<>>
    /\ result' = "Ok"
    /\ UNCHANGED <<orientation, inverted, dc, rst, power, overflow_checks, remap_reg,
                   initialized, future, intent, prepared>>
    /\ UNCHANGED frame_vars

\* A panic (an `unwrap` of an Err) aborts the program
ProgramRuns == render_pc # "panicked"

\* main, line 136: let frame = NEXT_FRAME.wait().await
MainWait ==
    /\ ProgramRuns
    /\ main_pc = "wait"
    /\ NEXT_FRAME # <<>>
    /\ counter <= MaxCounter
    /\ main_frame' = NEXT_FRAME
    /\ NEXT_FRAME' = <<>>
    /\ main_pc' = "draw"
    /\ UNCHANGED <<READY_FRAME, frames, counter, render_pc, render_frame, dropped, flushed>>
    /\ DriverUnchanged

\* main, lines 137-144: clear the frame and draw the text with the counter
MainDraw ==
    /\ ProgramRuns
    /\ main_pc = "draw"
    /\ \E pixels \in TextPixelLists(frames[main_frame[1]], counter) :
        frames' = [frames EXCEPT ![main_frame[1]] = draw_iter(clear(@, 0), pixels)]
    /\ main_pc' = "signal"
    /\ UNCHANGED <<NEXT_FRAME, READY_FRAME, main_frame, counter, render_pc, render_frame,
                   dropped, flushed>>
    /\ DriverUnchanged

\* main, lines 146-147: READY_FRAME.signal(frame); counter += 1
MainSignal ==
    /\ ProgramRuns
    /\ main_pc = "signal"
    /\ dropped' = dropped \cup overwritten(READY_FRAME)
    /\ READY_FRAME' = signal(READY_FRAME, main_frame[1])
    /\ main_frame' = <<>>
    /\ counter' = counter + 1
    /\ main_pc' = "tick"
    /\ UNCHANGED <<NEXT_FRAME, frames, render_pc, render_frame, flushed>>
    /\ DriverUnchanged

\* main, line 149: ticker.next().await
MainTick ==
    /\ ProgramRuns
    /\ main_pc = "tick"
    /\ main_pc' = "wait"
    /\ UNCHANGED <<NEXT_FRAME, READY_FRAME, frames, main_frame, counter, render_pc,
                   render_frame, dropped, flushed>>
    /\ DriverUnchanged

\* render_task, line 91: display.init_default(&mut Delay) is called and
\* polled once
RenderInit ==
    /\ render_pc = "init"
    /\ \E f \in 0..MaxFailInit :
        Progress("init_default", <<>>, init_default(Begin(f), inverted), Called)
    /\ render_pc' = "init_default"
    /\ UNCHANGED <<NEXT_FRAME, READY_FRAME, frames, main_pc, main_frame, counter,
                   render_frame, dropped, flushed>>

\* render_task, lines 91, 95 and 100: the driver operation it awaits is
\* polled again
RenderPoll ==
    /\ render_pc \in {"init_default", "set_orientation", "flush_frame"}
    /\ result = "Pending"
    /\ Resumed
    /\ UNCHANGED handoff_vars

\* render_task, lines 91-95: init_default has returned Ok, and
\* display.set_orientation(Orientation::Inverted) is called and polled once
RenderSetOrientation ==
    /\ render_pc = "init_default"
    /\ result = "Ok"
    /\ \E f \in 0..MaxFailOrientation :
        Progress("set_orientation", <<"Inverted">>,
                 set_orientation(Begin(f), "Inverted"), Called)
    /\ render_pc' = "set_orientation"
    /\ UNCHANGED <<NEXT_FRAME, READY_FRAME, frames, main_pc, main_frame, counter,
                   render_frame, dropped, flushed>>

\* render_task, lines 91 and 95: `.unwrap()` of an Err panics
RenderPanic ==
    /\ render_pc \in {"init_default", "set_orientation"}
    /\ result \notin {"Pending", "Ok"}
    /\ render_pc' = "panicked"
    /\ UNCHANGED <<NEXT_FRAME, READY_FRAME, frames, main_pc, main_frame, counter,
                   render_frame, dropped, flushed>>
    /\ DriverUnchanged

\* render_task, lines 95-96: set_orientation has returned Ok;
\* let mut frame = READY_FRAME.wait().await
RenderFirstWait ==
    /\ render_pc = "set_orientation"
    /\ result = "Ok"
    /\ READY_FRAME # <<>>
    /\ render_frame' = READY_FRAME
    /\ READY_FRAME' = <<>>
    /\ render_pc' = "signal"
    /\ UNCHANGED <<NEXT_FRAME, frames, main_pc, main_frame, counter, dropped, flushed>>
    /\ DriverReturned

\* render_task, line 98: NEXT_FRAME.signal(frame)
RenderSignal ==
    /\ ProgramRuns
    /\ render_pc = "signal"
    /\ dropped' = dropped \cup overwritten(NEXT_FRAME)
    /\ NEXT_FRAME' = signal(NEXT_FRAME, render_frame[1])
    /\ render_frame' = <<>>
    /\ render_pc' = "wait"
    /\ UNCHANGED <<READY_FRAME, frames, main_pc, main_frame, counter, flushed>>
    /\ DriverUnchanged

\* render_task, line 99: frame = READY_FRAME.wait().await
RenderWait ==
    /\ render_pc = "wait"
    /\ READY_FRAME # <<>>
    /\ render_frame' = READY_FRAME
    /\ READY_FRAME' = <<>>
    /\ render_pc' = "flush"
    /\ UNCHANGED <<NEXT_FRAME, frames, main_pc, main_frame, counter, dropped, flushed>>
    /\ DriverUnchanged

\* render_task, line 100: display.flush_frame(&frame) is called and polled once
RenderFlush ==
    /\ render_pc = "flush"
    /\ LET frame == frames[render_frame[1]]
       IN  \E f \in 0..MaxFailFrame :
            Progress("flush_frame", <<frame.width, frame.height, frame.buffer>>,
                     flush_frame(Begin(f), frame), Called)
    /\ render_pc' = "flush_frame"
    /\ UNCHANGED <<NEXT_FRAME, READY_FRAME, frames, main_pc, main_frame, counter,
                   render_frame, dropped, flushed>>

\* render_task, lines 100-103: flush_frame has returned; Ok: the display has
\* the frame; Err: the error is logged, and the loop goes on
RenderFlushed ==
    /\ render_pc = "flush_frame"
    /\ result \notin {"Pending", "Panic"}
    /\ flushed' = IF result = "Ok" THEN <<render_frame[1], args[3]>> ELSE flushed
    /\ render_pc' = "signal"
    /\ UNCHANGED <<NEXT_FRAME, READY_FRAME, frames, main_pc, main_frame, counter,
                   render_frame, dropped>>
    /\ DriverReturned

NextHandoff ==
    \/ MainWait
    \/ MainDraw
    \/ MainSignal
    \/ MainTick
    \/ RenderInit
    \/ RenderPoll
    \/ RenderSetOrientation
    \/ RenderPanic
    \/ RenderFirstWait
    \/ RenderSignal
    \/ RenderWait
    \/ RenderFlush
    \/ RenderFlushed

SpecHandoff == InitHandoff /\ [][NextHandoff]_vars

-----------------------------------------------------------------------------
(* Reading the record of an operation *)

\* The transport writes among the events, in order
WriteSeq(evs) == SelectSeq(evs, LAMBDA e : e.ev = "write")

\* The commands among the writes ws from the i-th on: each opcode write with
\* the bytes of the parameter write that follows it, if any
RECURSIVE CommandsFrom(_, _)
CommandsFrom(ws, i) ==
    IF i > Len(ws) THEN <<>>
    ELSE IF ws[i].kind = "opcode"
    THEN <<[cmd |-> ws[i].bytes,
            params |-> IF i < Len(ws) /\ ws[i + 1].kind = "params" THEN ws[i + 1].bytes ELSE <<>>]>>
         \o CommandsFrom(ws, i + 1)
    ELSE CommandsFrom(ws, i + 1)

CommandsSent(evs) == CommandsFrom(WriteSeq(evs), 1)

\* The transport accepted every write of the operation
AllAccepted(evs) == \A i \in 1..Len(evs) : evs[i].ok

\* The transport received at least one byte
SentBytes(evs) == \E i \in 1..Len(evs) : evs[i].ev = "write" /\ evs[i].ok /\ Len(evs[i].bytes) > 0

\* The pin and delay sequence of a hard reset
ResetSequence ==
    << DelayEv(1), PinEv("rst", 0), DelayEv(1), PinEv("rst", 1),
       DelayEv(1), PinEv("power", 1), DelayEv(1) >>

Cmd(opcode, params) == [cmd |-> <<opcode>>, params |-> params]

-----------------------------------------------------------------------------
(* The claims *)

\* C1: with a transport that accepts every write, init_default first performs
\* the whole hard-reset pin sequence and only then transmits, in this order,
\* 0xFD[0x12], 0xAE, 0xA0[0x14,0x11], 0xA1[0], 0xA2[0], 0xA6 (0xA7 iff colour
\* inversion is configured), 0xAB[1], 0xB1[0xF2], 0xB3[0xA1], 0xB4[0xA0,0xFD],
\* 0xB6[8], 0xB9, 0xBB[0x1F], 0xBE[7], 0xC1[0x3C], 0xC7[0x0A], 0xCA[0x3E], 0xA9,
\* 0xAF and the remapping command 0xA0 of the configured orientation; nothing else.
C1_InitSequence ==
    (op = "init_default" /\ result # "Pending" /\ AllAccepted(events)) =>
        /\ result = "Ok"
        /\ Len(events) > 7
        /\ SubSeq(events, 1, 7) = ResetSequence
        /\ CommandsSent(events) =
            << Cmd(253, <<18>>), Cmd(174, <<>>), Cmd(160, <<20, 17>>), Cmd(161, <<0>>),
               Cmd(162, <<0>>), Cmd(IF inverted THEN 167 ELSE 166, <<>>), Cmd(171, <<1>>),
               Cmd(177, <<242>>), Cmd(179, <<161>>), Cmd(180, <<160, 253>>), Cmd(182, <<8>>),
               Cmd(185, <<>>), Cmd(187, <<31>>), Cmd(190, <<7>>), Cmd(193, <<60>>),
               Cmd(199, <<10>>), Cmd(202, <<62>>), Cmd(169, <<>>), Cmd(175, <<>>),
               Cmd(160, IF orientation = "Inverted" THEN <<6, 17>> ELSE <<20, 17>>) >>

C1_Witness ==
    /\ op = "init_default" /\ result = "Ok" /\ AllAccepted(events)
    /\ inverted /\ orientation = "Inverted"
    /\ Len(CommandsSent(events)) = 20

\* C2: every command transmission is one transport write of exactly one opcode
\* byte, followed by a second write, with data-select asserted, only if the
\* command carries parameters: a parameter write is never empty.
C2_CommandFraming ==
    \A i \in 1..Len(events) :
        events[i].ev = "write" =>
            /\ events[i].kind = "opcode" => Len(events[i].bytes) = 1
            /\ events[i].kind = "params" =>
                /\ Len(events[i].bytes) > 0
                /\ events[i].dc = 1
                /\ PrevWrite(events, i) # 0
                /\ events[PrevWrite(events, i)].kind = "opcode"

\* C3: every transport write that carries an opcode is made with the
\* data/command pin last driven low, and every write that carries command
\* parameters or pixel data with the pin last driven high.
C3_DataCommandSelect ==
    \A i \in 1..Len(events) :
        events[i].ev = "write" =>
            /\ events[i].kind = "opcode" => events[i].dc = 0
            /\ events[i].kind \in {"params", "data"} => events[i].dc = 1

C3_Witness ==
    /\ op = "flush_buffer" /\ result = "Ok"
    /\ \E i \in 1..Len(events) :
        events[i].ev = "write" /\ events[i].kind = "data" /\ Len(events[i].bytes) > 0
    /\ \E i \in 1..Len(events) :
        events[i].ev = "write" /\ events[i].kind = "opcode" /\ events[i].dc = 0

\* C4: whenever a session operation has returned, with Ok or with an error,
\* the stored orientation is the one whose remapping preset the transport
\* accepted last.
C4_OrientationMatchesRegister ==
    (result # "Pending" /\ remap_reg # <<>>) =>
        remap_reg = (IF orientation = "Inverted" THEN <<6, 17>> ELSE <<20, 17>>)

\* C5 as stated: write_data, flush_buffer and flush_frame send nothing on a
\* session on which init_default has not completed.
C5_NothingSentBeforeInit ==
    (op \in {"write_data", "flush_buffer", "flush_frame"} /\ ~initialized) =>
        ~SentBytes(events)

\* C5, amended: the session keeps no initialization state; write_data and
\* flush_buffer make their transport writes on any session, initialized or
\* not, and so does flush_frame unless its window is refused or it panics.
C5_FlushNeedsNoInit ==
    /\ op = "write_data" =>
        /\ Len(events) = 2
        /\ events[2].ev = "write" /\ events[2].kind = "data" /\ events[2].bytes = args[1]
    /\ op = "flush_buffer" =>
        /\ Len(events) >= 2
        /\ events[2].ev = "write" /\ events[2].kind = "opcode" /\ events[2].bytes = <<92>>
    /\ (op = "flush_frame" /\ result \notin {"OutOfRange", "Panic"}) =>
        /\ Len(events) >= 2
        /\ events[2].ev = "write" /\ events[2].kind = "opcode" /\ events[2].bytes = <<21>>

C5_Witness ==
    /\ op = "write_data" /\ ~initialized /\ result = "Ok"
    /\ Len(args[1]) > 0
    /\ SentBytes(events)

\* Sleep-enable (0xAE) is sent before every command other than the
\* command-lock disable (0xFD)
SleepEnableFirst(ws) ==
    \A i \in 1..Len(ws) :
        (ws[i].kind = "opcode" /\ ws[i].bytes \notin {<<253>>, <<174>>}) =>
            \E j \in 1..(i - 1) : ws[j].kind = "opcode" /\ ws[j].bytes = <<174>>

\* C6 as stated: in init_default 0xAE is sent before every configuration
\* command other than the command-lock disable, and no command, the
\* remapping command 0xA0 included, is sent after sleep-disable (0xAF).
C6_NothingAfterSleepDisable ==
    op = "init_default" =>
        LET ws == WriteSeq(events)
        IN  /\ SleepEnableFirst(ws)
            /\ \A j \in 1..Len(ws) :
                (ws[j].kind = "opcode" /\ ws[j].bytes = <<175>>) =>
                    \A i \in (j + 1)..Len(ws) : ws[i].kind # "opcode"

\* C6, amended: in init_default 0xAE is sent before every configuration
\* command other than the command-lock disable, 0xAF is sent after all 18
\* other commands of the fixed list, and the only command sent after 0xAF is
\* the final remapping command 0xA0 of the configured orientation.
C6_SleepBracketsFixedList ==
    op = "init_default" =>
        LET ws == WriteSeq(events)
            cs == CommandsSent(events)
        IN  /\ SleepEnableFirst(ws)
            /\ \A j \in 1..Len(cs) :
                cs[j].cmd = <<175>> =>
                    /\ j = 19
                    /\ [k \in 1..18 |-> cs[k].cmd[1]] =
                        << 253, 174, 160, 161, 162, IF inverted THEN 167 ELSE 166, 171, 177,
                           179, 180, 182, 185, 187, 190, 193, 199, 202, 169 >>
                    /\ Len(cs) <= 20
                    /\ Len(cs) = 20 => cs[20].cmd = <<160>>

C6_Witness ==
    /\ op = "init_default" /\ result = "Ok" /\ ~inverted
    /\ LET cs == CommandsSent(events)
       IN  Len(cs) = 20 /\ cs[19].cmd = <<175>> /\ cs[20].cmd = <<160>>

\* C7: a transport write that fails ends the operation at once with that
\* error: the failed write is the operation's last event (the operation is
\* suspended at it, or has returned Comm), it is not retried and no write
\* follows it.
C7_FirstErrorAborts ==
    /\ \A i \in 1..Len(events) :
        (events[i].ev = "write" /\ ~events[i].ok) =>
            (i = Len(events) /\ result \in {"Pending", "Comm"})
    /\ result = "Comm" =>
        /\ Len(events) > 0
        /\ events[Len(events)].ev = "write" /\ ~events[Len(events)].ok

C7_Witness ==
    /\ op = "init_default" /\ result = "Comm"
    /\ Len(WriteSeq(events)) = 20
    /\ ~events[Len(events)].ok

\* C8: whenever a session operation returns OutOfRange, the transport has
\* received no byte during that operation.
C8_NothingSentOnOutOfRange ==
    result = "OutOfRange" => \A i \in 1..Len(events) : events[i].ev # "write"

\* C9: hard_reset waits 1 ms, drives reset low, waits 1 ms, drives reset high,
\* waits 1 ms, drives power-enable high and waits 1 ms; it makes no transport
\* write, leaves the data/command pin alone and returns Ok. init_default
\* starts with the same sequence. While either is suspended in it, what it
\* did so far is the start of that sequence.
C9_HardResetSequence ==
    /\ (op = "hard_reset" /\ result # "Pending") => (events = ResetSequence /\ result = "Ok")
    /\ (op = "init_default" /\ result # "Pending") =>
            (Len(events) >= 7 /\ SubSeq(events, 1, 7) = ResetSequence)
    /\ (op \in {"hard_reset", "init_default"} /\ result = "Pending") =>
            LET n == IF Len(events) < 7 THEN Len(events) ELSE 7
            IN  SubSeq(events, 1, n) = SubSeq(ResetSequence, 1, n)

C9_Witness ==
    /\ op = "hard_reset" /\ result = "Ok"
    /\ Len(events) = 7 /\ rst = 1 /\ power = 1 /\ dc = 0

\* C10 as stated: set_address_window(0, 0, 256, 64) succeeds and sends 0x15
\* with column_start = 28, column_end = 59, then 0x75 with rows 0 and 63.
C10_DefaultWindowEnds59 ==
    (op = "set_address_window" /\ args = <<0, 0, 256, 64>> /\ result # "Pending"
        /\ AllAccepted(events)) =>
        /\ result = "Ok"
        /\ CommandsSent(events) = << Cmd(21, <<28, 59>>), Cmd(117, <<0, 63>>) >>

\* C10, amended: set_address_window(0, 0, 256, 64) succeeds and sends 0x15
\* with column_start = 28, column_end = 91, then 0x75 with rows 0 and 63.
C10_DefaultWindowEnds91 ==
    (op = "set_address_window" /\ args = <<0, 0, 256, 64>> /\ result # "Pending"
        /\ AllAccepted(events)) =>
        /\ result = "Ok"
        /\ CommandsSent(events) = << Cmd(21, <<28, 91>>), Cmd(117, <<0, 63>>) >>

C10_Witness ==
    /\ op = "set_address_window" /\ args = <<0, 0, 256, 64>>
    /\ result = "Ok" /\ Len(WriteSeq(events)) = 4

\* C11: for every accepted set_address_window(start_x, start_y, width, height)
\* the column-address parameters sent are column_start =
\* ((480 - width + start_x) div 2) div 4 and column_end =
\* column_start + (width div 4) - 1, and the row-address parameters sent are
\* row start = start_y and row end = start_y + height - 1.
C11_WindowParameters ==
    (op = "set_address_window" /\ result = "Ok") =>
        LET start_x == args[1]
            start_y == args[2]
            width == args[3]
            height == args[4]
            column_start == ((480 - width + start_x) \div 2) \div 4
            column_end == column_start + (width \div 4) - 1
        IN  CommandsSent(events) =
                << Cmd(21, <<column_start, column_end>>),
                   Cmd(117, <<start_y, start_y + height - 1>>) >>

\* C12: set_address_window returns OutOfRange whenever the column_start or
\* column_end it computed exceeds 119, or a row value of the window (start_y
\* or start_y + height - 1) exceeds 127. Stated for the calls whose
\* arithmetic completed and whose writes the transport accepted.
C12_OutOfRangeWhenOutside ==
    (op = "set_address_window" /\ result \notin {"Panic", "Pending"} /\ AllAccepted(events)) =>
        LET start_x == args[1]
            start_y == args[2]
            width == args[3]
            height == args[4]
            column_start == window_column_start(window_offset(width, start_x).v)
            column_end == window_column_end(column_start, width).v
        IN  ( \/ column_start > 119 \/ column_end > 119
              \/ start_y > 127 \/ start_y + height - 1 > 127 )
                => result = "OutOfRange"

\* C13: with a transport that accepts every write and a frame whose window is
\* accepted, flush_frame sends, in order, the column-address and row-address
\* commands of the window (0, 0, frame.width, frame.height), the opcode 0x5C
\* and then the whole frame buffer as data in exactly one transport write of
\* width*height/2 bytes; when the window is rejected, neither 0x5C nor any
\* buffer byte is sent.
C13_FlushFrameSequence ==
    op = "flush_frame" =>
        LET width == args[1]
            height == args[2]
            buffer == args[3]
            ws == WriteSeq(events)
            column_start == ((480 - width) \div 2) \div 4
            column_end == column_start + (width \div 4) - 1
        IN  /\ (AllAccepted(events) /\ result = "Ok") =>
                /\ CommandsSent(events) =
                       << Cmd(21, <<column_start, column_end>>),
                          Cmd(117, <<0, height - 1>>),
                          Cmd(92, <<>>) >>
                /\ Len(ws) = 6
                /\ ws[6].kind = "data"
                /\ ws[6].bytes = buffer
                /\ Len(ws[6].bytes) = (width * height) \div 2
            /\ result \in {"OutOfRange", "Panic"} =>
                \A i \in 1..Len(ws) : ws[i].kind # "data" /\ ws[i].bytes # <<92>>

\* The two bytes the codec gives for the remapping preset the spec names for
\* an orientation
PresetBytes(o) ==
    LET c == IF o = "Standard"
             THEN prepare(SetRemapping("Horizontal", "Forward", "Forward",
                                       "RowZeroLast", "DualProgressive"))
             ELSE prepare(SetRemapping("Horizontal", "Reverse", "Forward",
                                       "RowZeroFirst", "DualProgressive"))
    IN  SubSeq(c.data, 1, c.len)

\* C14: set_orientation(o) sends exactly one remapping command, 0xA0 with two
\* parameter bytes, and the bytes depend on o alone, whatever was sent
\* before: Standard sends the preset horizontal increment, forward column
\* remap, forward nibble remap, last-row-first scan, dual-progressive layout;
\* Inverted the same with reverse column remap and first-row-first scan. The
\* bytes are those of the remapping command that init_default issues last for
\* the same configured orientation.
C14_OrientationBytesFixed ==
    /\ (op = "set_orientation" /\ result # "Pending" /\ AllAccepted(events)) =>
            /\ result = "Ok"
            /\ CommandsSent(events) = << Cmd(160, PresetBytes(args[1])) >>
            /\ Len(PresetBytes(args[1])) = 2
    /\ op = "set_orientation" => Len(CommandsSent(events)) <= 1
    /\ (op = "init_default" /\ result = "Ok") =>
            CommandsSent(events)[20] = Cmd(160, PresetBytes(orientation))

C14_Witness ==
    /\ op = "set_orientation" /\ args = <<"Standard">> /\ result = "Ok"
    /\ initialized /\ remap_reg = PresetBytes("Standard")
    /\ CommandsSent(events) = << Cmd(160, <<20, 17>>) >>

\* C15: the remapping command sent for an orientation carries the byte
\* documented on the Orientation enum: for Standard the first parameter is
\* 0x06 and the second 0x11, for Inverted the first parameter is 0x14.
C15_OrientationDocumentedBytes ==
    (op = "set_orientation" /\ result # "Pending" /\ AllAccepted(events)) =>
        LET sent == CommandsSent(events)
        IN  /\ Len(sent) = 1
            /\ args[1] = "Standard" => sent[1].params = <<6, 17>>
            /\ args[1] = "Inverted" => sent[1].params[1] = 20

\* One Command of each variant that prepare accepts
Reference(tag) ==
    CASE tag = "SetColumnAddress" -> SetColumnAddress(0, 0)
      [] tag = "SetRowAddress" -> SetRowAddress(0, 0)
      [] tag = "SetRemapping" ->
            SetRemapping("Horizontal", "Forward", "Forward", "RowZeroFirst", "Progressive")
      [] tag = "SetStartLine" -> SetStartLine(0)
      [] tag = "SetDisplayOffset" -> SetDisplayOffset(0)
      [] tag = "SetDisplayMode" -> SetDisplayMode("Normal")
      [] tag = "EnablePartialDisplay" -> EnablePartialDisplay(0, 0)
      [] tag = "FunctionSelect" -> FunctionSelect("InternalVDD")
      [] tag = "SetSleepMode" -> SetSleepMode(TRUE)
      [] tag = "SetPhaseLengths" -> SetPhaseLengths(5, 3)
      [] tag = "SetClockFoscDivset" -> SetClockFoscDivset(0, 0)
      [] tag = "SetDisplayEnhancements" -> SetDisplayEnhancements(TRUE, TRUE)
      [] tag = "SetSecondPrechargePeriod" -> SetSecondPrechargePeriod(0)
      [] tag = "SetPreChargeVoltage" -> SetPreChargeVoltage(0)
      [] tag = "SetComDeselectVoltage" -> SetComDeselectVoltage(0)
      [] tag = "SetContrastCurrent" -> SetContrastCurrent(0)
      [] tag = "SetMasterContrast" -> SetMasterContrast(0)
      [] tag = "SetMuxRatio" -> SetMuxRatio(16)
      [] tag = "SetCommandLock" -> SetCommandLock(TRUE)
      [] OTHER -> [tag |-> tag]

\* C16 as stated: the opcode of a successful prepare depends only on the
\* variant, not on the parameter values: every Command of a variant gets the
\* opcode that one reference Command of the variant gets.
C16_OneOpcodePerVariant ==
    (prepared # <<>> /\ prepared[1].ok) =>
        prepared[1].cmd = prepare(Reference(intent[1].tag)).cmd

\* C16, amended: the opcode of a successful prepare depends only on the
\* variant for every variant but SetDisplayMode and SetSleepMode;
\* SetDisplayMode gets 0xA4, 0xA5, 0xA6 or 0xA7 for BlankDark, BlankBright,
\* Normal and Inverse, and SetSleepMode gets 0xAE for true and 0xAF for false,
\* both without parameter bytes.
C16_OneOpcodePerVariantButTwo ==
    (prepared # <<>> /\ prepared[1].ok) =>
        LET c == intent[1]
            r == prepared[1]
        IN  CASE c.tag = "SetDisplayMode" ->
                    /\ r.len = 0
                    /\ r.cmd = ( IF c.mode = "BlankDark" THEN 164
                                 ELSE IF c.mode = "BlankBright" THEN 165
                                 ELSE IF c.mode = "Normal" THEN 166
                                 ELSE 167 )
              [] c.tag = "SetSleepMode" ->
                    /\ r.len = 0
                    /\ r.cmd = IF c.ena THEN 174 ELSE 175
              [] OTHER -> r.cmd = prepare(Reference(c.tag)).cmd

C16_Witness ==
    /\ intent = <<SetDisplayMode("Inverse")>>
    /\ prepared # <<>> /\ prepared[1].ok /\ prepared[1].cmd = 167

\* C17: for every pair (start, end) of 8-bit values, prepare of
\* SetColumnAddress(start, end) succeeds exactly when both are in 0..=119, and
\* then gives opcode 0x15 with exactly the two parameter bytes start, end;
\* otherwise it fails with OutOfRange.
C17_ColumnAddressEncoding ==
    (prepared # <<>> /\ intent[1].tag = "SetColumnAddress") =>
        LET start == intent[1].a
            end == intent[1].b
            r == prepared[1]
        IN  IF start <= 119 /\ end <= 119
            THEN r.ok /\ r.cmd = 21 /\ r.len = 2 /\ r.data = <<start, end>>
            ELSE ~r.ok /\ r.err = "OutOfRange"

C17_Witness ==
    /\ intent = <<SetColumnAddress(28, 119)>>
    /\ prepared # <<>> /\ prepared[1].ok /\ prepared[1].data = <<28, 119>>

\* C18: for every 8-bit ratio, prepare of SetMuxRatio(ratio) gives opcode 0xCA
\* with the single parameter byte ratio - 1 when ratio is in 16..=128, and
\* fails with OutOfRange for every ratio outside, 0 and 129 among them.
C18_MuxRatioEncoding ==
    (prepared # <<>> /\ intent[1].tag = "SetMuxRatio") =>
        LET ratio == intent[1].a
            r == prepared[1]
        IN  IF 16 <= ratio /\ ratio <= 128
            THEN r.ok /\ r.cmd = 202 /\ r.len = 1 /\ r.data[1] = ratio - 1
            ELSE ~r.ok /\ r.err = "OutOfRange"

C18_Witness ==
    /\ intent = <<SetMuxRatio(128)>>
    /\ prepared # <<>> /\ prepared[1].ok /\ prepared[1].len = 1 /\ prepared[1].data[1] = 127

\* The documented limits of a Command's parameters
WithinLimits(c) ==
    CASE c.tag = "SetColumnAddress" -> c.a <= 119 /\ c.b <= 119
      [] c.tag = "SetRowAddress" -> c.a <= 127 /\ c.b <= 127
      [] c.tag = "SetStartLine" -> c.a <= 127
      [] c.tag = "SetDisplayOffset" -> c.a <= 127
      [] c.tag = "EnablePartialDisplay" -> c.a <= 127 /\ c.b <= 127 /\ c.a <= c.b
      [] c.tag = "SetPhaseLengths" -> 5 <= c.a /\ c.a <= 31 /\ 3 <= c.b /\ c.b <= 15
      [] c.tag = "SetClockFoscDivset" -> c.a <= 15 /\ c.b <= 10
      [] c.tag = "SetSecondPrechargePeriod" -> c.a <= 15
      [] c.tag = "SetPreChargeVoltage" -> c.a <= 31
      [] c.tag = "SetComDeselectVoltage" -> c.a <= 7
      [] c.tag = "SetMasterContrast" -> c.a <= 15
      [] c.tag = "SetMuxRatio" -> 16 <= c.a /\ c.a <= 128
      [] OTHER -> TRUE

\* C19: for every command and every 8-bit parameter value, prepare fails
\* exactly when a parameter is outside its documented limit (row address,
\* start line and display offset 0..=127; phase-1 5..=31; phase-2 3..=15;
\* fosc 0..=15; divider 0..=10; second pre-charge 0..=15; pre-charge voltage
\* 0..=31; COM-deselect 0..=7; master contrast 0..=15; partial-display rows
\* 0..=127 with start <= end); the contrast current is accepted over all of
\* 0..=255, and the only error is OutOfRange, never BadTableLength.
C19_FailsExactlyOutsideLimits ==
    prepared # <<>> =>
        /\ prepared[1].ok <=> WithinLimits(intent[1])
        /\ ~prepared[1].ok => prepared[1].err = "OutOfRange"

C19_Witness ==
    /\ intent = <<EnablePartialDisplay(5, 4)>>
    /\ prepared # <<>> /\ ~prepared[1].ok /\ prepared[1].err = "OutOfRange"

\* C20: for phase_1 in 5..=31 and phase_2 in 3..=15, SetPhaseLengths encodes
\* to 0xB1 with one byte whose low nibble is (phase_1 - 1) div 2 and whose
\* high nibble is phase_2; for fosc in 0..=15 and divset in 0..=10,
\* SetClockFoscDivset encodes to 0xB3 with one byte whose high nibble is fosc
\* and whose low nibble is divset: the two sub-fields never overlap.
C20_NibblePacking ==
    prepared # <<>> =>
        LET c == intent[1]
            r == prepared[1]
        IN  /\ (c.tag = "SetPhaseLengths" /\ c.a \in 5..31 /\ c.b \in 3..15) =>
                /\ r.ok /\ r.cmd = 177 /\ r.len = 1
                /\ r.data[1] % 16 = (c.a - 1) \div 2
                /\ r.data[1] \div 16 = c.b
            /\ (c.tag = "SetClockFoscDivset" /\ c.a \in 0..15 /\ c.b \in 0..10) =>
                /\ r.ok /\ r.cmd = 179 /\ r.len = 1
                /\ r.data[1] \div 16 = c.a
                /\ r.data[1] % 16 = c.b

C20_Witness ==
    /\ intent = <<SetPhaseLengths(31, 15)>>
    /\ prepared # <<>> /\ prepared[1].ok /\ prepared[1].data[1] = 255

\* The 48 combinations of the five remapping settings
RemapCombinations ==
    {SetRemapping(ia, cr, nr, csd, cl) :
        ia \in {"Horizontal", "Vertical"}, cr \in {"Forward", "Reverse"},
        nr \in {"Reverse", "Forward"}, csd \in {"RowZeroFirst", "RowZeroLast"},
        cl \in {"Progressive", "Interlaced", "DualProgressive"}}

\* C21: for all 48 combinations of the five remapping settings, prepare of
\* SetRemapping succeeds with opcode 0xA0 and exactly 2 parameter bytes, and
\* two different combinations never give the same pair of parameter bytes.
C21_RemappingInjective ==
    (prepared # <<>> /\ intent[1].tag = "SetRemapping") =>
        LET r == prepared[1]
        IN  /\ intent[1] \in RemapCombinations
            /\ Cardinality(RemapCombinations) = 48
            /\ r.ok /\ r.cmd = 160 /\ r.len = 2
            /\ \A c \in RemapCombinations :
                    c # intent[1] => prepare(c).data # r.data

C21_Witness ==
    /\ intent = <<SetRemapping("Vertical", "Reverse", "Forward", "RowZeroLast", "Interlaced")>>
    /\ prepared # <<>> /\ prepared[1].ok /\ prepared[1].data = <<55, 1>>

\* C22: for in-bounds (x, y), set_pixel(x, y, c) changes only the byte at
\* index (y*width + x) div 2: it stores the 4-bit value c in the high nibble
\* when x is even and in the low nibble when x is odd, keeps the byte's other
\* nibble and leaves every other byte unchanged.
C22_SetPixelStoresNibble ==
    (frame_call.name = "set_pixel"
        /\ frame_call.x < frame_before[1].width /\ frame_call.y < frame_before[1].height) =>
        LET old == frame_before[1]
            new == frame_store[1]
            x == frame_call.x
            idx == (frame_call.y * old.width + x) \div 2
        IN  /\ new.width = old.width /\ new.height = old.height
            /\ Len(new.buffer) = Len(old.buffer)
            /\ idx < Len(new.buffer)
            /\ new.buffer[idx + 1] =
                    IF x % 2 = 0
                    THEN 16 * frame_call.color + (old.buffer[idx + 1] % 16)
                    ELSE 16 * (old.buffer[idx + 1] \div 16) + frame_call.color
            /\ \A i \in 1..Len(new.buffer) : i # idx + 1 => new.buffer[i] = old.buffer[i]

\* C23: set_pixel(x, y, c) with x >= width or y >= height leaves every byte
\* of the buffer and the frame's width and height unchanged (and has no error
\* to report: it returns nothing).
C23_SetPixelOutsideIsNoOp ==
    (frame_call.name = "set_pixel"
        /\ (frame_call.x >= frame_before[1].width \/ frame_call.y >= frame_before[1].height)) =>
        frame_store = frame_before

C23_Witness ==
    /\ frame_call = FrameCall("set_pixel", 4, 0, 5)
    /\ frame_before = <<Frame_new(4, 1, <<89, 0>>)>>
    /\ frame_store = frame_before

\* The 4-bit value a buffer holds for the coordinate (x, y)
Decode(f, x, y) ==
    LET byte == f.buffer[((y * f.width + x) \div 2) + 1]
    IN  IF x % 2 = 0 THEN byte \div 16 ELSE byte % 16

\* C24: after clear(c) on any frame every byte of the buffer holds c in both
\* nibbles, so every in-bounds coordinate has a byte and decodes to c; width,
\* height and buffer length are as before, and a second clear(c) changes
\* nothing.
C24_ClearFillsBothNibbles ==
    frame_call.name = "clear" =>
        LET old == frame_before[1]
            new == frame_store[1]
            c == frame_call.color
        IN  /\ new.width = old.width /\ new.height = old.height
            /\ Len(new.buffer) = Len(old.buffer)
            /\ \A i \in 1..Len(new.buffer) :
                    new.buffer[i] \div 16 = c /\ new.buffer[i] % 16 = c
            /\ \A x \in PixelXs, y \in PixelYs :
                    (x < new.width /\ y < new.height) =>
                        /\ (y * new.width + x) \div 2 < Len(new.buffer)
                        /\ Decode(new, x, y) = c
            /\ clear(new, c) = new

\* C25: every Frame that can be constructed (Frame::new with any width,
\* height and buffer, or Frame::default) and every Frame reached from it by
\* set_pixel, draw_iter and clear has buffer length = width*height/2.
C25_BufferLengthInvariant ==
    frame_store # <<>> =>
        Len(frame_store[1].buffer) =
            calculate_buffer_size(frame_store[1].width, frame_store[1].height)

\* The transport refused the i-th event of evs
FailedWrite(evs, i) == evs[i].ev = "write" /\ ~evs[i].ok

\* C26: every error a session operation returns is either Comm, for the
\* transport write that failed (the last thing the operation did), or the
\* codec's CommandError unchanged (OutOfRange, with no write refused); no
\* operation returns a Pin error, in any reachable state.
C26_ErrorKinds ==
    /\ result \in {"Pending", "Ok", "Comm", "OutOfRange", "Panic"}
    /\ result = "Comm" =>
            /\ Len(events) > 0
            /\ FailedWrite(events, Len(events))
            /\ \A i \in 1..(Len(events) - 1) : ~FailedWrite(events, i)
    /\ result \notin {"Comm", "Pending"} => \A i \in 1..Len(events) : ~FailedWrite(events, i)

C26_Witness ==
    /\ op = "set_address_window" /\ result = "OutOfRange"
    /\ Len(WriteSeq(events)) = 2 /\ AllAccepted(events)

\* C27: hard_reset, set_address_window, write_data, flush_buffer and
\* flush_frame leave the stored orientation and the colour-inversion flag as
\* they were: the stored orientation changes only in set_orientation (also
\* when init_default calls it), and the inversion flag never changes.
C27_OrientationAndInversionStable ==
    [][ /\ inverted' = inverted
        /\ orientation' # orientation => op' \in {"set_orientation", "init_default"}
        /\ op' \in {"hard_reset", "set_address_window", "write_data", "flush_buffer", "flush_frame"}
                => orientation' = orientation ]_vars

C27_Witness ==
    /\ op = "flush_buffer" /\ result = "Ok"
    /\ orientation = "Inverted" /\ inverted /\ remap_reg = <<6, 17>>

\* C28: for every Config (both orientations, both colour-inversion values)
\* init_default never returns a command-validation error: it returns Ok when
\* the transport accepts every write, and fails, with Comm, only when a
\* transport write fails.
C28_InitNeverOutOfRange ==
    (op = "init_default" /\ result # "Pending") =>
        /\ result \in {"Ok", "Comm"}
        /\ AllAccepted(events) => result = "Ok"
        /\ result = "Comm" => \E i \in 1..Len(events) : FailedWrite(events, i)

C28_Witness ==
    /\ op = "init_default" /\ result = "Comm"
    /\ orientation = "Inverted" /\ inverted
    /\ Len(CommandsSent(events)) = 20

\* C29: set_address_window returns OutOfRange only if a column address it
\* computed exceeds 119 or a row address of the window (start_y or
\* start_y + height - 1) exceeds 127: every window whose four addresses are
\* within the limits is accepted.
C29_OutOfRangeOnlyWhenOutside ==
    (op = "set_address_window" /\ result = "OutOfRange") =>
        LET start_x == args[1]
            start_y == args[2]
            width == args[3]
            height == args[4]
            column_start == window_column_start(window_offset(width, start_x).v)
            column_end == window_column_end(column_start, width).v
        IN  \/ column_start > 119 \/ column_end > 119
            \/ start_y > 127 \/ start_y + height - 1 > 127

\* C30: for all 16-bit inputs, every intermediate value that
\* set_address_window computes (480 - width + start_x,
\* column_start + width/4 - 1, and height - 1 once the range check has
\* passed) stays within 0..=65535: no subtraction underflows and no addition
\* overflows.
C30_WindowArithmeticInRange ==
    (op = "set_address_window" /\ result # "Pending") =>
        LET start_x == args[1]
            start_y == args[2]
            width == args[3]
            height == args[4]
            offset == window_offset(width, start_x)
            column_start == window_column_start(offset.v)
            column_end == window_column_end(column_start, width)
            passed == /\ column_start <= BUF_COL_MAX /\ column_end.v <= BUF_COL_MAX
                      /\ start_y <= PIXEL_ROW_MAX /\ height <= PIXEL_ROW_MAX
        IN  /\ result # "Panic"
            /\ ~offset.ovf
            /\ ~column_end.ovf
            /\ passed => ~window_row_end(height).ovf

\* The coordinate (x, y) is inside the frame f and has a byte in its buffer
Stored(f, x, y) ==
    /\ x < f.width /\ y < f.height
    /\ (y * f.width + x) \div 2 < Len(f.buffer)

\* C31: for any frame dimensions, two different in-bounds coordinates never
\* share a nibble of the buffer: set_pixel on one in-bounds coordinate leaves
\* the value stored for every other in-bounds coordinate unchanged.
C31_NoSharedNibble ==
    (frame_call.name = "set_pixel"
        /\ frame_call.x < frame_before[1].width /\ frame_call.y < frame_before[1].height) =>
        \A x \in PixelXs, y \in PixelYs :
            (<<x, y>> # <<frame_call.x, frame_call.y>> /\ Stored(frame_store[1], x, y))
                => Decode(frame_store[1], x, y) = Decode(frame_before[1], x, y)

\* A frame with the colour c stored for the coordinate (x, y): the nibble of
\* x's parity in the byte (y*width + x) div 2, when the coordinate is in
\* bounds and has a byte; the effect of set_pixel at (x, y)
WithPixelAt(f, x, y, c) ==
    LET idx == (y * f.width + x) \div 2
    IN  IF ~(0 <= x /\ x < f.width /\ 0 <= y /\ y < f.height) THEN f
        ELSE IF idx >= Len(f.buffer) THEN f
        ELSE IF x % 2 = 0
        THEN [f EXCEPT !.buffer[idx + 1] = 16 * c + (@ % 16)]
        ELSE [f EXCEPT !.buffer[idx + 1] = 16 * (@ \div 16) + c]

RECURSIVE WithPixels(_, _)
WithPixels(f, pixels) ==
    IF pixels = <<>> THEN f
    ELSE LET p == Head(pixels)
             g == WithPixelAt(f, p.x, p.y, p.color)
         IN  WithPixels(g, Tail(pixels))

\* C32: for every frame width and height (widths or heights above 256
\* included), draw_iter applies each pixel whose coordinate lies inside the
\* frame's bounds at exactly that coordinate, with the effect of set_pixel at
\* that (x, y), and drops every pixel outside the bounds without changing
\* the buffer.
C32_DrawIterAtExactCoordinate ==
    frame_call.name = "draw_iter" =>
        frame_store[1] = WithPixels(frame_before[1], frame_call.pixels)

\* The frame cells still in circulation: held by a signal or by a task
InCirculation ==
    {c \in FrameCells : \/ NEXT_FRAME = <<c>>
                        \/ READY_FRAME = <<c>>
                        \/ main_frame = <<c>>
                        \/ render_frame = <<c>>}

\* C33: in the example's hand-off, under every interleaving of main and
\* render_task, no signal is signalled while it still holds an untaken frame:
\* no frame is dropped and both frames stay in circulation, in a signal or
\* held by a task.
C33_BothFramesInCirculation ==
    /\ dropped = {}
    /\ InCirculation = FrameCells

====
